---- MODULE Spec2Model ----
(***************************************************************************)
(* ShotMaster 1.4 (shotmaster_1_4.py): hierarchical render settings,       *)
(* output paths and the render_from_camera lifecycle of ShotMasterManager. *)
(* Names, paths and pass names are sequences of one-character strings.     *)
(***************************************************************************)
EXTENDS Integers, Sequences, FiniteSets, TLC

VARIABLES master, groups, cameras, env, jobs, ret, batch

vars == <<master, groups, cameras, env, jobs, ret, batch>>

(* ------------------------------ bounds --------------------------------- *)

\* longest render-pass list of a camera
MaxPasses == 2

\* render jobs counted by MasterSettings.total_renders before the model stops
MaxRenders == 2

\* longest wall-clock duration of one job, in seconds
MaxDur == 1

\* longest camera name tried for the sanitisation
MaxNameLen == 3

\* most camera objects in the scene when the statistics are taken
MaxCameras == 2

\* longest render-pass list the add operator is followed to
MaxListLen == 4

(* --------------------------- character strings ------------------------- *)

Str_empty == <<>>
Str_Ext == <<"E", "x", "t">>
Str_Gone == <<"G", "o", "n", "e">>
Str_ShotA == <<"S", "h", "o", "t", " ", "A">>
Str_Main == <<"M", "a", "i", "n">>
Str_Cube == <<"C", "u", "b", "e">>
Str_shot == <<"s", "h", "o", "t">>
Str_beauty == <<"b", "e", "a", "u", "t", "y">>
Str_depth == <<"d", "e", "p", "t", "h">>
Str_root == <<"r", "o", "o", "t", "/">>
Str_gdir == <<"g", "/">>
Str_cdir == <<"c", "/">>
Str_old == <<"/", "t", "m", "p", "/">>
Str_ungrouped == <<"u", "n", "g", "r", "o", "u", "p", "e", "d">>
Str_animation == <<"a", "n", "i", "m", "a", "t", "i", "o", "n">>
Str_stills == <<"s", "t", "i", "l", "l", "s">>
Str_renders == <<"/", "/", "r", "e", "n", "d", "e", "r", "s", "/">>
Str_blend == <<"/", "p", "r", "j", "/">>
Str_grel == <<"/", "/", "g">>
Str_abs == <<"/", "x">>
Str_hash == <<"#">>
Str_UngroupedKey == <<"U", "n", "g", "r", "o", "u", "p", "e", "d">>

\* characters for which str.isalnum() holds, within the alphabet of the model
AlnumChars ==
    {"a", "b", "c", "d", "e", "f", "g", "h", "i", "j", "k", "l", "m", "n", "o",
     "p", "q", "r", "s", "t", "u", "v", "w", "x", "y", "z",
     "A", "B", "C", "D", "E", "F", "G", "H", "I", "J", "K", "L", "M", "N", "O",
     "P", "Q", "R", "S", "T", "U", "V", "W", "X", "Y", "Z",
     "0", "1", "2", "3", "4", "5", "6", "7", "8", "9"}

\* "".join(c for c in name if c.isalnum() or c in " _-")
KeepChars(name) == SelectSeq(name, LAMBDA c : c \in AlnumChars \/ c \in {" ", "_", "-"})

RECURSIVE LStrip(_)
LStrip(s) == IF s # <<>> /\ Head(s) = " " THEN LStrip(Tail(s)) ELSE s

RECURSIVE RStrip(_)
RStrip(s) == IF s # <<>> /\ s[Len(s)] = " " THEN RStrip(SubSeq(s, 1, Len(s) - 1)) ELSE s

\* str.strip()
Strip(s) == RStrip(LStrip(s))

\* str.replace(" ", "_")
ReplaceSpaces(s) == [i \in 1..Len(s) |-> IF s[i] = " " THEN "_" ELSE s[i]]

\* the mutant without str.strip()
Sanitize_nostrip(name) == ReplaceSpaces(KeepChars(name))

\* the sanitisation of a group or camera name into one path segment
Sanitize(name) == ReplaceSpaces(Strip(KeepChars(name)))

\* os.path.join(a, b) of posixpath: an absolute b discards a
PathJoin2(a, b) ==
    IF b # <<>> /\ Head(b) = "/" THEN b
    ELSE IF a = <<>> \/ a[Len(a)] = "/" THEN a \o b
    ELSE a \o <<"/">> \o b

RECURSIVE PathJoin(_)
PathJoin(parts) ==
    IF Len(parts) = 1 THEN parts[1]
    ELSE PathJoin(<<PathJoin2(parts[1], parts[2])>> \o SubSeq(parts, 3, Len(parts)))

\* bpy.path.abspath(path): a "//" prefix is relative to the blend file's directory
abspath(path) ==
    IF Len(path) >= 2 /\ path[1] = "/" /\ path[2] = "/"
    THEN PathJoin2(Str_blend, SubSeq(path, 3, Len(path)))
    ELSE path

(* ------------------------------ the scene ------------------------------ *)

Engines == {"CYCLES", "BLENDER_EEVEE", "BLENDER_WORKBENCH"}

FileFormats == {"PNG", "JPEG", "OPEN_EXR", "TIFF"}

\* context.scene.view_layers, by name
ViewLayers == {"ViewLayer", "FX"}

\* an object of the scene that is not of type 'CAMERA', and the absent object
\* (None, written as the name no object has)
MeshObject == Str_Cube
NoObject == <<>>

\* camera and camera.type == 'CAMERA'
IsCamera(camera) == camera \in DOMAIN cameras

\* the mutant that goes on with the last group of the loop when none matches
FindGroup_last(name) ==
    IF \E i \in 1..Len(groups) : groups[i].name = name
    THEN CHOOSE i \in 1..Len(groups) :
            /\ groups[i].name = name
            /\ \A k \in 1..(i - 1) : groups[k].name # name
    ELSE Len(groups)

\* the index of the first group of the collection named name, 0 when there is none
FindGroup(name) ==
    IF \E i \in 1..Len(groups) : groups[i].name = name
    THEN CHOOSE i \in 1..Len(groups) :
            /\ groups[i].name = name
            /\ \A k \in 1..(i - 1) : groups[k].name # name
    ELSE 0

(* ------------------- ShotMasterManager: path resolution ---------------- *)

\* None and "" are both falsy for `if pass_name:`; the anonymous pass is the empty name
NoPass == <<>>

\* the first group named group_name that has use_custom_output_path set, 0 when none
FindPathGroup(group_name) ==
    IF \E i \in 1..Len(groups) : groups[i].name = group_name /\ groups[i].use_custom_output_path
    THEN CHOOSE i \in 1..Len(groups) :
            /\ groups[i].name = group_name /\ groups[i].use_custom_output_path
            /\ \A k \in 1..(i - 1) :
                  ~(groups[k].name = group_name /\ groups[k].use_custom_output_path)
    ELSE 0

\* the mutant in which a set toggle wins also with an empty path
base_path_noempty(c) ==
    LET m == abspath(master.master_output_path)
        gi == IF c.group # <<>> THEN FindPathGroup(c.group) ELSE 0
        g == IF gi # 0 THEN abspath(groups[gi].output_path) ELSE m
    IN IF c.use_custom_output_path THEN abspath(c.output_path) ELSE g

\* the base directory: master, overridden by the group, overridden by the camera
base_path(c) ==
    LET m == abspath(master.master_output_path)
        gi == IF c.group # <<>> THEN FindPathGroup(c.group) ELSE 0
        g == IF gi # 0 /\ groups[gi].output_path # <<>>
             THEN abspath(groups[gi].output_path) ELSE m
    IN IF c.use_custom_output_path /\ c.output_path # <<>>
       THEN abspath(c.output_path) ELSE g

group_path(c) ==
    IF c.group # <<>>
    THEN PathJoin(<<base_path(c), Sanitize(c.group)>>)
    ELSE PathJoin(<<base_path(c), Str_ungrouped>>)

\* the mutant that uses the camera name as it is
get_camera_output_path_rawname(camera, render_animation, pass_name) ==
    LET c == cameras[camera]
        mode == IF render_animation THEN Str_animation ELSE Str_stills
    IN IF pass_name # <<>>
       THEN PathJoin(<<group_path(c), camera, mode, pass_name>>)
       ELSE PathJoin(<<group_path(c), camera, mode>>)

get_camera_output_path(camera, render_animation, pass_name) ==
    LET c == cameras[camera]
        mode == IF render_animation THEN Str_animation ELSE Str_stills
    IN IF pass_name # <<>>
       THEN PathJoin(<<group_path(c), Sanitize(camera), mode, pass_name>>)
       ELSE PathJoin(<<group_path(c), Sanitize(camera), mode>>)

(* ------------------- ShotMasterManager: render settings ---------------- *)

\* the nine fields setup_render_settings stores for restoration
Snapshot(e) ==
    [engine |-> e.engine,
     resolution_x |-> e.resolution_x,
     resolution_y |-> e.resolution_y,
     resolution_percentage |-> e.resolution_percentage,
     filepath |-> e.filepath,
     file_format |-> e.file_format,
     active_camera |-> e.camera,
     frame_start |-> e.frame_start,
     frame_end |-> e.frame_end]

\* the sample count of the engine that is set at this moment
WriteSamples(e, cycles_samples, eevee_samples) ==
    IF e.engine = "CYCLES" THEN [e EXCEPT !.cycles_samples = cycles_samples]
    ELSE IF e.engine = "BLENDER_EEVEE" THEN [e EXCEPT !.eevee_samples = eevee_samples]
    ELSE e

\* the mutant that forgets the master resolution percentage
ApplyMaster_nopercentage(e) ==
    WriteSamples([e EXCEPT !.engine = master.master_render_engine,
                           !.resolution_x = master.master_resolution_x,
                           !.resolution_y = master.master_resolution_y],
                 master.master_cycles_samples, master.master_eevee_samples)

\* "Start with master settings"
ApplyMaster(e) ==
    WriteSamples([e EXCEPT !.engine = master.master_render_engine,
                           !.resolution_x = master.master_resolution_x,
                           !.resolution_y = master.master_resolution_y,
                           !.resolution_percentage = master.master_resolution_percentage],
                 master.master_cycles_samples, master.master_eevee_samples)

\* the engine, resolution and samples of one tier (a group or a camera record)
ApplyTier(e, t) ==
    IF t.use_custom_render_settings
    THEN LET e1 == [e EXCEPT !.engine = t.render_engine]
             e2 == IF t.use_custom_resolution
                   THEN [e1 EXCEPT !.resolution_x = t.resolution_x,
                                   !.resolution_y = t.resolution_y,
                                   !.resolution_percentage = t.resolution_percentage]
                   ELSE e1
         IN WriteSamples(e2, t.cycles_samples, t.eevee_samples)
    ELSE e

\* does this tier assign context.window.view_layer
WritesLayer(t) == t.use_custom_view_layer /\ t.view_layer \in ViewLayers

ApplyLayer(e, t) == IF WritesLayer(t) THEN [e EXCEPT !.view_layer = t.view_layer] ELSE e

ApplyFrames(e, c) ==
    IF c.use_custom_frames
    THEN [e EXCEPT !.frame_start = c.start_frame, !.frame_end = c.end_frame]
    ELSE [e EXCEPT !.frame_start = master.master_start_frame,
                   !.frame_end = master.master_end_frame]

ApplyCameraAndFormat(e, camera, is_viewport) ==
    LET e1 == [e EXCEPT !.camera = camera]
    IN IF is_viewport THEN e1
       ELSE [e1 EXCEPT !.file_format = cameras[camera].file_format]

\* setup_render_settings(camera, is_viewport) run on environment e.  has_window
\* is FALSE when context.window is None: the assignment to
\* context.window.view_layer then raises AttributeError and the writes made so
\* far stay.  The result is the environment left behind, whether the call
\* raised, and the dictionary original_settings built at its start (returned
\* to the caller only when the call did not raise).
setup_render_settings(e, camera, is_viewport, has_window) ==
    LET c == cameras[camera]
        gi == IF c.group # <<>> THEN FindGroup(c.group) ELSE 0
        e1 == ApplyMaster(e)
        e2 == IF gi # 0 THEN ApplyTier(e1, groups[gi]) ELSE e1
        graise == gi # 0 /\ WritesLayer(groups[gi]) /\ ~has_window
        e3 == IF gi # 0 THEN ApplyLayer(e2, groups[gi]) ELSE e2
        e4 == ApplyTier(e3, c)
        craise == WritesLayer(c) /\ ~has_window
        e5 == ApplyLayer(e4, c)
        e6 == ApplyCameraAndFormat(ApplyFrames(e5, c), camera, is_viewport)
    IN IF graise THEN [env |-> e2, raised |-> TRUE, original_settings |-> Snapshot(e)]
       ELSE IF craise THEN [env |-> e4, raised |-> TRUE, original_settings |-> Snapshot(e)]
       ELSE [env |-> e6, raised |-> FALSE, original_settings |-> Snapshot(e)]

restore_render_settings(e, original_settings) ==
    [e EXCEPT !.engine = original_settings.engine,
              !.resolution_x = original_settings.resolution_x,
              !.resolution_y = original_settings.resolution_y,
              !.resolution_percentage = original_settings.resolution_percentage,
              !.filepath = original_settings.filepath,
              !.file_format = original_settings.file_format,
              !.camera = original_settings.active_camera,
              !.frame_start = original_settings.frame_start,
              !.frame_end = original_settings.frame_end]

(* ----------------------------- initial state --------------------------- *)

\* names of the render passes of a camera, by position in its list
PassNames == <<Str_beauty, Str_depth, <<"m", "i", "s", "t">>, <<"a", "o">>>>

\* the pass lists of at most MaxPasses passes
PassLists ==
    UNION {[1..n -> BOOLEAN] : n \in 0..MaxPasses}

MakePasses(flags) ==
    [i \in 1..Len(flags) |-> [name |-> PassNames[i], enabled |-> flags[i]]]

DefaultMaster ==
    [master_render_engine |-> "CYCLES",
     master_resolution_x |-> 1920, master_resolution_y |-> 1080,
     master_resolution_percentage |-> 100,
     master_cycles_samples |-> 128, master_eevee_samples |-> 64,
     master_start_frame |-> 1, master_end_frame |-> 250,
     master_output_path |-> Str_root,
     total_renders |-> 0, last_render_time |-> 0, total_render_time |-> 0]

GroupExt ==
    [name |-> Str_Ext,
     use_custom_output_path |-> FALSE, output_path |-> Str_gdir,
     use_custom_render_settings |-> FALSE, render_engine |-> "BLENDER_EEVEE",
     cycles_samples |-> 32, eevee_samples |-> 16,
     use_custom_resolution |-> FALSE,
     resolution_x |-> 1280, resolution_y |-> 720, resolution_percentage |-> 50,
     use_custom_view_layer |-> FALSE, view_layer |-> "FX"]

CameraShot ==
    [group |-> <<>>,
     use_custom_render_settings |-> FALSE, render_engine |-> "CYCLES",
     cycles_samples |-> 8, eevee_samples |-> 4,
     use_custom_resolution |-> FALSE,
     resolution_x |-> 640, resolution_y |-> 480, resolution_percentage |-> 25,
     use_render_passes |-> FALSE,
     render_passes |-> MakePasses(<<TRUE>>), active_pass_index |-> 0,
     use_custom_output_path |-> FALSE, output_path |-> Str_cdir,
     file_format |-> "JPEG", filename |-> Str_shot,
     use_custom_view_layer |-> FALSE, view_layer |-> "FX",
     use_custom_frames |-> FALSE, start_frame |-> 10, end_frame |-> 20]

\* the render environment of the scene before any job
SceneEnv ==
    [engine |-> "BLENDER_EEVEE",
     resolution_x |-> 800, resolution_y |-> 600, resolution_percentage |-> 75,
     filepath |-> Str_old, file_format |-> "TIFF",
     camera |-> Str_Main, frame_start |-> 5, frame_end |-> 6,
     cycles_samples |-> 2, eevee_samples |-> 3,
     view_layer |-> "ViewLayer"]

IdleJob ==
    [pc |-> "idle", camera |-> NoObject,
     render_animation |-> FALSE, is_viewport |-> FALSE,
     bound |-> FALSE, original_settings |-> Snapshot(SceneEnv),
     success |-> FALSE, passes_to_render |-> <<>>, i |-> 1,
     result |-> FALSE, setup_raised |-> FALSE, trace |-> <<>>,
     makedirs |-> <<>>,
     pre_env |-> SceneEnv, pre_master |-> DefaultMaster]

\* ret holds what the last call of get_camera_output_path or
\* get_camera_statistics returned; before any such call it holds this
NoReturn == [kind |-> "none"]

\* batch holds the position of a running batch operator (render_all_cameras,
\* render_group_cameras); while none has been started it holds this
NoBatch == [pc |-> "none"]

\* one camera "Shot A", one declared group "Ext", one render job at a time
Init ==
    /\ \E me \in Engines :
          master = [DefaultMaster EXCEPT !.master_render_engine = me]
    /\ \E gvl \in BOOLEAN :
          groups = <<[GroupExt EXCEPT !.use_custom_view_layer = gvl]>>
    /\ \E g \in {Str_empty, Str_Ext}, cvl \in BOOLEAN,
          urp \in BOOLEAN, flags \in PassLists :
          cameras = [n \in {Str_ShotA} |->
                       [CameraShot EXCEPT !.group = g,
                                          !.use_custom_view_layer = cvl,
                                          !.use_render_passes = urp,
                                          !.render_passes = MakePasses(flags)]]
    /\ env = SceneEnv
    /\ jobs = [j \in {1} |-> IdleJob]
    /\ ret = NoReturn
    /\ batch = NoBatch

(* ------------------- ShotMasterManager.render_from_camera -------------- *)

Durations == 0..MaxDur

\* no job is between its call and its return
NoJobInFlight == \A k \in DOMAIN jobs : jobs[k].pc \in {"idle", "returned"}

\* one event of a job: an engine invocation (op is "opengl", "still" or
\* "animation", ok its outcome), a pass given up before the engine because no
\* output directory could be created (op is "mkdir_failed"), or the execution
\* of restore_render_settings (op is "restore")
Event(op, pass_name, ok) == [op |-> op, pass |-> pass_name, ok |-> ok]

\* one call of os.makedirs by a job, for a pass, and whether it worked
Makedirs(pass_name, dir, ok) == [pass |-> pass_name, dir |-> dir, ok |-> ok]

\* the mutant that falls back to the path "//renders/" as it is written
fallback_output_dir_relative == Str_renders

\* bpy.path.abspath("//renders/"), the fallback of line 1117
fallback_output_dir == abspath(Str_renders)

\* the mutant that also renders the disabled passes
passes_to_render_all(c) ==
    IF c.use_render_passes
    THEN [i \in 1..Len(c.render_passes) |-> c.render_passes[i].name]
    ELSE <<NoPass>>

\* "Get passes to render"
passes_to_render(c) ==
    IF c.use_render_passes
    THEN LET enabled == SelectSeq(c.render_passes, LAMBDA p : p.enabled)
         IN [i \in 1..Len(enabled) |-> enabled[i].name]
    ELSE <<NoPass>>

\* the mutant that leaves the pass suffix out of the file name
pass_filename_nosuffix(camera, pass_name) ==
    cameras[camera].filename \o <<"_">> \o camera

\* f"{camera.shotmaster_camera.filename}_{camera.name}{pass_suffix}"
pass_filename(camera, pass_name) ==
    cameras[camera].filename \o <<"_">> \o camera
        \o (IF pass_name # <<>> THEN <<"_">> \o pass_name ELSE <<>>)

\* the mutant in which the last pass alone decides
success_after_render_last(success, ok) == ok

\* `success = True`, reached when bpy.ops.render.render did not raise
success_after_render(success, ok) == success \/ ok

\* the mutant that always reports success
return_value_true(success) == TRUE

\* `return success`
return_value(success) == success

\* the mutant that forgets the render count
update_statistics_nocount(m, render_time) ==
    [m EXCEPT !.last_render_time = render_time,
              !.total_render_time = @ + render_time]

\* "Update render statistics"
update_statistics(m, render_time) ==
    [m EXCEPT !.total_renders = @ + 1,
              !.last_render_time = render_time,
              !.total_render_time = @ + render_time]

\* the guard of render_from_camera: not a camera object, return False
CallInvalid(j, camera) ==
    /\ NoJobInFlight
    /\ ~IsCamera(camera)
    /\ jobs' = [jobs EXCEPT ![j] =
                  [IdleJob EXCEPT !.pc = "returned", !.camera = camera,
                                  !.result = FALSE,
                                  !.pre_env = env, !.pre_master = master]]
    /\ UNCHANGED <<master, groups, cameras, env, ret, batch>>

\* entry of render_from_camera on a camera object: success = False
Call(j, camera, render_animation, is_viewport) ==
    /\ NoJobInFlight
    /\ IsCamera(camera)
    /\ master.total_renders < MaxRenders
    /\ jobs' = [jobs EXCEPT ![j] =
                  [IdleJob EXCEPT !.pc = "setup", !.camera = camera,
                                  !.render_animation = render_animation,
                                  !.is_viewport = is_viewport,
                                  !.pre_env = env, !.pre_master = master]]
    /\ UNCHANGED <<master, groups, cameras, env, ret, batch>>

\* original_settings = setup_render_settings(camera, is_viewport); an exception
\* goes to the outer `except`, which returns False
Setup(j, has_window) ==
    LET job == jobs[j]
        r == setup_render_settings(env, job.camera, job.is_viewport, has_window)
        todo == passes_to_render(cameras[job.camera])
    IN /\ job.pc = "setup"
       /\ env' = r.env
       /\ jobs' = [jobs EXCEPT ![j] =
             IF r.raised
             THEN [job EXCEPT !.pc = "finally", !.result = FALSE, !.setup_raised = TRUE]
             ELSE IF job.is_viewport
             THEN [job EXCEPT !.pc = "viewport", !.bound = TRUE,
                              !.original_settings = r.original_settings]
             ELSE [job EXCEPT !.pc = IF todo = <<>> THEN "stats" ELSE "passes",
                              !.bound = TRUE,
                              !.original_settings = r.original_settings,
                              !.passes_to_render = todo, !.i = 1]]
       /\ UNCHANGED <<master, groups, cameras, ret, batch>>

\* is_viewport and render_animation: the branch is `pass`, nothing is rendered
ViewportAnimation(j) ==
    LET job == jobs[j]
    IN /\ job.pc = "viewport"
       /\ job.render_animation
       /\ jobs' = [jobs EXCEPT ![j] = [job EXCEPT !.pc = "stats"]]
       /\ UNCHANGED <<master, groups, cameras, env, ret, batch>>

\* is_viewport, a still: bpy.ops.render.opengl(); its exception goes to the
\* outer `except`
ViewportRender(j, ok) ==
    LET job == jobs[j]
        tr == Append(job.trace, Event("opengl", NoPass, ok))
    IN /\ job.pc = "viewport"
       /\ ~job.render_animation
       /\ jobs' = [jobs EXCEPT ![j] =
             IF ok
             THEN [job EXCEPT !.pc = "stats", !.success = TRUE, !.trace = tr]
             ELSE [job EXCEPT !.pc = "finally", !.result = FALSE, !.trace = tr]]
       /\ UNCHANGED <<master, groups, cameras, env, ret, batch>>

\* one iteration of "Render each pass".  mkdir is "ok" when os.makedirs of the
\* resolved directory works, "fallback" when it raises and os.makedirs of the
\* default directory works, "fail" when both raise; ok is the outcome of
\* bpy.ops.render.render.  Every exception is caught inside the iteration.
RenderPass(j, mkdir, ok) ==
    LET job == jobs[j]
        pass_name == job.passes_to_render[job.i]
        resolved == get_camera_output_path(job.camera, job.render_animation, pass_name)
        output_dir == IF mkdir = "ok" THEN resolved ELSE fallback_output_dir
        made == job.makedirs \o
                   (IF mkdir = "ok" THEN <<Makedirs(pass_name, resolved, TRUE)>>
                    ELSE <<Makedirs(pass_name, resolved, FALSE),
                           Makedirs(pass_name, fallback_output_dir, mkdir = "fallback")>>)
        op == IF job.render_animation THEN "animation" ELSE "still"
        last == job.i = Len(job.passes_to_render)
        next == [job EXCEPT !.i = job.i + 1, !.makedirs = made,
                            !.pc = IF last THEN "stats" ELSE "passes"]
    IN /\ job.pc = "passes"
       /\ job.i <= Len(job.passes_to_render)
       /\ IF mkdir = "fail"
          THEN /\ jobs' = [jobs EXCEPT ![j] =
                     [next EXCEPT !.trace =
                         Append(job.trace, Event("mkdir_failed", pass_name, FALSE))]]
               /\ env' = env
          ELSE /\ env' = [env EXCEPT !.filepath =
                            PathJoin(<<output_dir, pass_filename(job.camera, pass_name)>>)]
               /\ jobs' = [jobs EXCEPT ![j] =
                     [next EXCEPT !.success = success_after_render(job.success, ok),
                                  !.trace = Append(job.trace, Event(op, pass_name, ok))]]
       /\ UNCHANGED <<master, groups, cameras, ret, batch>>

\* "Update render statistics" and `return success`
UpdateStats(j, render_time) ==
    LET job == jobs[j]
    IN /\ job.pc = "stats"
       /\ master' = update_statistics(master, render_time)
       /\ jobs' = [jobs EXCEPT ![j] =
             [job EXCEPT !.pc = "finally", !.result = return_value(job.success)]]
       /\ UNCHANGED <<groups, cameras, env, ret, batch>>

\* the `finally` clause: restore_render_settings(original_settings); when
\* original_settings was never assigned the NameError is caught and printed
Finally(j) ==
    LET job == jobs[j]
    IN /\ job.pc = "finally"
       /\ IF job.bound
          THEN /\ env' = restore_render_settings(env, job.original_settings)
               /\ jobs' = [jobs EXCEPT ![j] =
                     [job EXCEPT !.pc = "returned",
                                 !.trace = Append(job.trace, Event("restore", NoPass, TRUE))]]
          ELSE /\ env' = env
               /\ jobs' = [jobs EXCEPT ![j] = [job EXCEPT !.pc = "returned"]]
       /\ UNCHANGED <<master, groups, cameras, ret, batch>>

Next ==
    \/ \E j \in DOMAIN jobs, camera \in {MeshObject, NoObject} : CallInvalid(j, camera)
    \/ \E j \in DOMAIN jobs, camera \in DOMAIN cameras,
          render_animation \in BOOLEAN, is_viewport \in BOOLEAN :
          Call(j, camera, render_animation, is_viewport)
    \/ \E j \in DOMAIN jobs, has_window \in BOOLEAN : Setup(j, has_window)
    \/ \E j \in DOMAIN jobs : ViewportAnimation(j)
    \/ \E j \in DOMAIN jobs, ok \in BOOLEAN : ViewportRender(j, ok)
    \/ \E j \in DOMAIN jobs, mkdir \in {"ok", "fallback", "fail"}, ok \in BOOLEAN :
          RenderPass(j, mkdir, ok)
    \/ \E j \in DOMAIN jobs, render_time \in Durations : UpdateStats(j, render_time)
    \/ \E j \in DOMAIN jobs : Finally(j)

Spec == Init /\ [][Next]_vars

TypeOK ==
    /\ master.total_renders \in 0..MaxRenders
    /\ \A j \in DOMAIN jobs :
          jobs[j].pc \in {"idle", "setup", "viewport", "passes", "stats", "finally", "returned"}

(* ------------- settings resolution alone: every tier's toggles --------- *)

\* a job that has just entered render_from_camera on camera "Shot A", for every
\* combination of the override toggles and engines of the three tiers
InitSetup ==
    /\ \E me \in Engines :
          master = [DefaultMaster EXCEPT !.master_render_engine = me]
    /\ \E grs \in BOOLEAN, gres \in BOOLEAN, gvl \in BOOLEAN, ge \in Engines :
          groups = <<[GroupExt EXCEPT !.use_custom_render_settings = grs,
                                      !.use_custom_resolution = gres,
                                      !.use_custom_view_layer = gvl,
                                      !.render_engine = ge]>>
    /\ \E g \in {Str_empty, Str_Ext, Str_Gone}, crs \in BOOLEAN, cres \in BOOLEAN,
          cvl \in BOOLEAN, cfr \in BOOLEAN, ce \in Engines,
          layer \in {"FX", "Missing"} :
          cameras = [n \in {Str_ShotA} |->
                       [CameraShot EXCEPT !.group = g,
                                          !.use_custom_render_settings = crs,
                                          !.use_custom_resolution = cres,
                                          !.use_custom_view_layer = cvl,
                                          !.view_layer = layer,
                                          !.use_custom_frames = cfr,
                                          !.render_engine = ce]]
    /\ env = SceneEnv
    /\ \E is_viewport \in BOOLEAN :
          jobs = [j \in {1} |->
                    [IdleJob EXCEPT !.pc = "setup", !.camera = Str_ShotA,
                                    !.is_viewport = is_viewport]]
    /\ ret = NoReturn
    /\ batch = NoBatch

NextSetup == \E j \in DOMAIN jobs, has_window \in BOOLEAN : Setup(j, has_window)

SpecSetup == InitSetup /\ [][NextSetup]_vars

(* ------------------------------- properties ---------------------------- *)

Returned(j) == jobs[j].pc = "returned"

\* the job was called on a camera object
OnCamera(j) == IsCamera(jobs[j].camera)

\* setup_render_settings has returned normally and the job has not returned yet
Applied(j) == jobs[j].pc \in {"viewport", "passes", "stats"}

EngineEvents(tr) == SelectSeq(tr, LAMBDA e : e.op \in {"opengl", "still", "animation"})

\* the iterations of the pass loop, with or without an engine invocation
AttemptEvents(tr) == SelectSeq(tr, LAMBDA e : e.op \in {"still", "animation", "mkdir_failed"})

RestoreEvents(tr) == SelectSeq(tr, LAMBDA e : e.op = "restore")

PassesOf(events) == [i \in 1..Len(events) |-> events[i].pass]

EnabledNames(c) ==
    PassesOf(SelectSeq([i \in 1..Len(c.render_passes) |->
                          [pass |-> c.render_passes[i].name,
                           enabled |-> c.render_passes[i].enabled]],
                       LAMBDA p : p.enabled))

SomeSucceeded(tr) == \E i \in 1..Len(tr) : tr[i].op \in {"opengl", "still", "animation"} /\ tr[i].ok

SomeFailed(tr) ==
    \E i \in 1..Len(tr) : tr[i].op \in {"opengl", "still", "animation", "mkdir_failed"} /\ ~tr[i].ok

\* the job got to "Update render statistics": on a camera, and neither
\* setup_render_settings nor the preview render raised
ReachedStatistics(j) ==
    /\ OnCamera(j)
    /\ ~jobs[j].setup_raised
    /\ ~\E i \in 1..Len(jobs[j].trace) :
          jobs[j].trace[i].op = "opengl" /\ ~jobs[j].trace[i].ok

\* C1: after render_from_camera returns from a call on a valid camera, each of
\* the nine snapshotted fields of the environment has its pre-call value.
\* Violated: when setup_render_settings raises, original_settings is unbound.
C1_SnapshotFieldsRestored ==
    \A j \in DOMAIN jobs :
        Returned(j) /\ OnCamera(j) => Snapshot(env) = Snapshot(jobs[j].pre_env)

\* C2: after render_from_camera returns, the Cycles and Eevee sample counts
\* and the active view layer have their pre-call values too.
\* Violated: restore_render_settings does not know these three fields.
C2_SamplesAndLayerRestored ==
    \A j \in DOMAIN jobs :
        Returned(j) /\ OnCamera(j) =>
            /\ env.cycles_samples = jobs[j].pre_env.cycles_samples
            /\ env.eevee_samples = jobs[j].pre_env.eevee_samples
            /\ env.view_layer = jobs[j].pre_env.view_layer

\* C3: in every call on a valid camera restore_render_settings is executed
\* exactly once, as the last event of the job, also when the apply step raised.
\* Violated: after an exception in setup_render_settings it is never executed.
C3_RestoreExactlyOnceAndLast ==
    \A j \in DOMAIN jobs :
        Returned(j) /\ OnCamera(j) =>
            /\ Len(RestoreEvents(jobs[j].trace)) = 1
            /\ jobs[j].trace[Len(jobs[j].trace)].op = "restore"

\* a job of several passes of which at least one failed and one succeeded
Mixed(j) ==
    /\ ~jobs[j].is_viewport
    /\ Len(AttemptEvents(jobs[j].trace)) >= 2
    /\ SomeSucceeded(jobs[j].trace)
    /\ SomeFailed(jobs[j].trace)

C5_FalseIffNothingSucceeded ==
    \A j \in DOMAIN jobs :
        Returned(j) /\ OnCamera(j) =>
            /\ jobs[j].result = FALSE <=>
                   (jobs[j].setup_raised \/ ~SomeSucceeded(jobs[j].trace))
            /\ jobs[j].setup_raised => EngineEvents(jobs[j].trace) = <<>>

C5_Witness ==
    \E j \in DOMAIN jobs :
        /\ Returned(j) /\ OnCamera(j) /\ ~jobs[j].setup_raised
        /\ jobs[j].result = FALSE
        /\ Len(EngineEvents(jobs[j].trace)) >= 2

\* the jobs C6 is about: not a preview, on a camera with use_render_passes
PassJob(j) ==
    /\ OnCamera(j)
    /\ ~jobs[j].is_viewport
    /\ cameras[jobs[j].camera].use_render_passes

\* C6 as stated: in a non-preview job with use_render_passes the engine is
\* invoked exactly once for each enabled pass, in the order of the pass list.
C6_EngineOncePerEnabledPass ==
    \A j \in DOMAIN jobs :
        Returned(j) /\ PassJob(j) =>
            PassesOf(EngineEvents(jobs[j].trace)) = EnabledNames(cameras[jobs[j].camera])

\* C6 amended: when the apply step did not raise, every enabled pass, and no
\* disabled one, is attempted exactly once in list order whatever the outcome
\* of the passes before it; the engine is invoked once in each attempt except
\* those whose output directory and fallback directory both could not be
\* created; when the apply step raised no pass is attempted.
C6_EveryEnabledPassAttempted ==
    \A j \in DOMAIN jobs :
        Returned(j) /\ PassJob(j) =>
            LET tr == jobs[j].trace
                c == cameras[jobs[j].camera]
            IN /\ ~jobs[j].setup_raised => PassesOf(AttemptEvents(tr)) = EnabledNames(c)
               /\ jobs[j].setup_raised => AttemptEvents(tr) = <<>>
               /\ Len(EngineEvents(tr)) =
                     Len(AttemptEvents(tr))
                       - Len(SelectSeq(tr, LAMBDA e : e.op = "mkdir_failed"))

C6_Witness ==
    \E j \in DOMAIN jobs :
        /\ Returned(j) /\ PassJob(j)
        /\ Len(AttemptEvents(jobs[j].trace)) >= 2
        /\ ~jobs[j].trace[1].ok
        /\ jobs[j].trace[2].op \in {"still", "animation"}
        /\ Len(cameras[jobs[j].camera].render_passes) >= 2

\* C7: a call on a valid camera with use_render_passes false makes exactly one
\* engine render, of the anonymous pass, for every render_animation/is_viewport.
\* Violated: the branch for is_viewport and render_animation renders nothing.
C7_OneAnonymousRender ==
    \A j \in DOMAIN jobs :
        Returned(j) /\ OnCamera(j) /\ ~cameras[jobs[j].camera].use_render_passes =>
            PassesOf(EngineEvents(jobs[j].trace)) = <<NoPass>>

\* C8 as stated: every invocation raises total_renders by exactly 1.
C8_EveryCallCountsOne ==
    \A j \in DOMAIN jobs :
        Returned(j) => master.total_renders = jobs[j].pre_master.total_renders + 1

\* C8 amended: an invocation on a valid camera in which neither the apply step
\* nor the preview render raises adds exactly 1 to total_renders, whatever the
\* number of passes; every other invocation leaves total_renders unchanged.
C8_CountedCallsCountOne ==
    \A j \in DOMAIN jobs :
        Returned(j) =>
            master.total_renders =
                jobs[j].pre_master.total_renders + (IF ReachedStatistics(j) THEN 1 ELSE 0)

C8_Witness ==
    \E j \in DOMAIN jobs :
        /\ Returned(j) /\ ReachedStatistics(j)
        /\ Len(EngineEvents(jobs[j].trace)) >= 2
        /\ jobs[j].pre_master.total_renders = 1
        /\ master.total_renders = 2

\* C9: when no pass of the job succeeded, total_renders, last_render_time and
\* total_render_time keep their pre-call values.
\* Violated: the statistics are updated whenever the pass loop ends.
C9_CountersKeptWithoutSuccess ==
    \A j \in DOMAIN jobs :
        Returned(j) /\ OnCamera(j) /\ ~SomeSucceeded(jobs[j].trace) =>
            /\ master.total_renders = jobs[j].pre_master.total_renders
            /\ master.last_render_time = jobs[j].pre_master.last_render_time
            /\ master.total_render_time = jobs[j].pre_master.total_render_time

\* the engine a camera without engine override inherits: its group's, else master's
InheritedEngine(c) ==
    LET gi == IF c.group # <<>> THEN FindGroup(c.group) ELSE 0
    IN IF gi # 0 /\ groups[gi].use_custom_render_settings
       THEN groups[gi].render_engine
       ELSE master.master_render_engine

\* C10: for a camera with use_custom_resolution set and
\* use_custom_render_settings not set, the applied resolution is the camera's
\* own and the applied engine is the inherited one.
\* Violated: the camera's resolution is applied only inside the
\* use_custom_render_settings branch.
C10_ResolutionOverrideAlone ==
    \A j \in DOMAIN jobs :
        LET c == cameras[jobs[j].camera]
        IN Applied(j) /\ c.use_custom_resolution /\ ~c.use_custom_render_settings =>
               /\ env.resolution_x = c.resolution_x
               /\ env.resolution_y = c.resolution_y
               /\ env.resolution_percentage = c.resolution_percentage
               /\ env.engine = InheritedEngine(c)

\* the sample count of the applied engine is the one of record t
SamplesFrom(t) ==
    /\ env.engine = "CYCLES" => env.cycles_samples = t.cycles_samples
    /\ env.engine = "BLENDER_EEVEE" => env.eevee_samples = t.eevee_samples

ResolutionFrom(t) ==
    /\ env.resolution_x = t.resolution_x
    /\ env.resolution_y = t.resolution_y
    /\ env.resolution_percentage = t.resolution_percentage

\* the index of the existing group of camera record c, 0 when it has none
GroupOf(c) == IF c.group # <<>> THEN FindGroup(c.group) ELSE 0

\* C11: for a camera with a camera-level override toggle set for a field-group
\* (engine and samples, resolution, active layer when it exists, frame range)
\* the applied value of that field-group is the camera's, whatever the group's
\* and master's values are.
\* Violated: as in C10, a camera's resolution override is ignored unless
\* use_custom_render_settings is set as well.
C11_CameraOverrideWins ==
    \A j \in DOMAIN jobs :
        LET c == cameras[jobs[j].camera]
        IN Applied(j) =>
               /\ c.use_custom_render_settings =>
                      env.engine = c.render_engine /\ SamplesFrom(c)
               /\ c.use_custom_resolution => ResolutionFrom(c)
               /\ c.use_custom_view_layer /\ c.view_layer \in ViewLayers =>
                      env.view_layer = c.view_layer
               /\ c.use_custom_frames =>
                      env.frame_start = c.start_frame /\ env.frame_end = c.end_frame

\* no override toggle is set at the camera tier nor at the group tier
NoOverride(c) ==
    /\ ~c.use_custom_render_settings /\ ~c.use_custom_resolution
    /\ ~c.use_custom_view_layer /\ ~c.use_custom_frames
    /\ GroupOf(c) # 0 =>
          /\ ~groups[GroupOf(c)].use_custom_render_settings
          /\ ~groups[GroupOf(c)].use_custom_resolution
          /\ ~groups[GroupOf(c)].use_custom_view_layer

\* C12: for a camera with no override toggle at the camera tier and none at
\* the group tier (or no group) the applied engine, resolution, sample count of
\* the master engine and frame range are the master defaults.
C12_NoOverrideGivesMaster ==
    \A j \in DOMAIN jobs :
        Applied(j) /\ NoOverride(cameras[jobs[j].camera]) =>
            /\ env.engine = master.master_render_engine
            /\ env.resolution_x = master.master_resolution_x
            /\ env.resolution_y = master.master_resolution_y
            /\ env.resolution_percentage = master.master_resolution_percentage
            /\ env.engine = "CYCLES" => env.cycles_samples = master.master_cycles_samples
            /\ env.engine = "BLENDER_EEVEE" => env.eevee_samples = master.master_eevee_samples
            /\ env.frame_start = master.master_start_frame
            /\ env.frame_end = master.master_end_frame

C12_Witness ==
    \E j \in DOMAIN jobs :
        /\ Applied(j) /\ NoOverride(cameras[jobs[j].camera])
        /\ GroupOf(cameras[jobs[j].camera]) # 0
        /\ env.engine = "CYCLES" /\ env.cycles_samples = master.master_cycles_samples
        /\ env.resolution_percentage # jobs[j].pre_env.resolution_percentage
        /\ env.frame_end # jobs[j].pre_env.frame_end

\* C13: for a camera in an existing group that sets no camera-level override
\* for a field-group while the group's toggle for it is set, the applied value
\* is the group's: engine and samples, resolution, and the active layer, the
\* last whatever the group's use_custom_render_settings is.
\* Violated: the group's resolution override is read only inside the group's
\* use_custom_render_settings branch (the nesting of C10, at the group tier).
C13_GroupOverrideApplies ==
    \A j \in DOMAIN jobs :
        LET c == cameras[jobs[j].camera]
            g == groups[GroupOf(c)]
        IN Applied(j) /\ GroupOf(c) # 0 =>
               /\ ~c.use_custom_render_settings /\ g.use_custom_render_settings =>
                      env.engine = g.render_engine /\ SamplesFrom(g)
               /\ ~c.use_custom_resolution /\ g.use_custom_resolution =>
                      ResolutionFrom(g)
               /\ ~c.use_custom_view_layer /\ g.use_custom_view_layer
                    /\ g.view_layer \in ViewLayers => env.view_layer = g.view_layer

\* what setup_render_settings leaves for camera record c when no group stage runs
UngroupedApplied(e, c, camera, is_viewport) ==
    ApplyCameraAndFormat(
        ApplyFrames(ApplyLayer(ApplyTier(ApplyMaster(e), c), c), c), camera, is_viewport)

\* the camera's group reference is non-empty and names no existing group
Dangling(c) == c.group # <<>> /\ \A i \in 1..Len(groups) : groups[i].name # c.group

NameChars == {"a", " ", "_", "#"}

\* the non-empty names of at most MaxNameLen characters
ShortNames == UNION {[1..n -> NameChars] : n \in 1..MaxNameLen}

\* either camera "Shot A" with every combination of the path toggles and paths
\* of the three tiers, or a camera of any short name with the default toggles
InitPath ==
    /\ \/ /\ \E mp \in {Str_empty, Str_root, Str_renders} :
                master = [DefaultMaster EXCEPT !.master_output_path = mp]
          /\ \E gcp \in BOOLEAN, gp \in {Str_empty, Str_gdir, Str_grel}, grs \in BOOLEAN :
                groups = <<[GroupExt EXCEPT !.use_custom_output_path = gcp,
                                            !.output_path = gp,
                                            !.use_custom_render_settings = grs]>>
          /\ \E g \in {Str_empty, Str_Ext, Str_Gone}, ccp \in BOOLEAN,
                cp \in {Str_empty, Str_cdir}, crs \in BOOLEAN :
                cameras = [n \in {Str_ShotA} |->
                             [CameraShot EXCEPT !.group = g,
                                                !.use_custom_output_path = ccp,
                                                !.output_path = cp,
                                                !.use_custom_render_settings = crs]]
       \/ /\ master = DefaultMaster
          /\ groups = <<GroupExt>>
          /\ \E name \in ShortNames, g \in {Str_empty, Str_Ext, Str_Gone, Str_hash} :
                cameras = [n \in {name} |-> [CameraShot EXCEPT !.group = g]]
    /\ env = SceneEnv
    /\ jobs = [j \in {1} |-> IdleJob]
    /\ ret = NoReturn
    /\ batch = NoBatch

\* the pass names get_camera_output_path is called with
PathPassNames == {NoPass, Str_depth, Str_abs}

\* one call of get_camera_output_path; ret keeps the arguments, the returned
\* path and the locals base_path (line 921) and sanitized_camera_name
PathCall(camera, render_animation, pass_name) ==
    /\ ret' = [kind |-> "path", camera |-> camera,
               render_animation |-> render_animation, pass_name |-> pass_name,
               base |-> base_path(cameras[camera]),
               camera_segment |-> Sanitize(camera),
               value |-> get_camera_output_path(camera, render_animation, pass_name)]
    /\ UNCHANGED <<master, groups, cameras, env, jobs, batch>>

NextPath ==
    \E camera \in DOMAIN cameras, render_animation \in BOOLEAN,
       pass_name \in PathPassNames : PathCall(camera, render_animation, pass_name)

SpecPath == InitPath /\ [][NextPath]_vars

PathReturned == ret.kind = "path"

\* the base directory by the three cases of C15
ExpectedBase(c) ==
    IF c.use_custom_output_path /\ c.output_path # <<>>
    THEN abspath(c.output_path)
    ELSE IF GroupOf(c) # 0 /\ groups[GroupOf(c)].use_custom_output_path
              /\ groups[GroupOf(c)].output_path # <<>>
    THEN abspath(groups[GroupOf(c)].output_path)
    ELSE abspath(master.master_output_path)

\* C15: the base directory of get_camera_output_path is the camera's output
\* path (made absolute) when the camera's path toggle is set and the path is
\* non-empty, else the group's when the group exists, its toggle is set and
\* its path is non-empty, else the master's; no other toggle matters.
C15_BaseDirectoryByTier ==
    PathReturned => ret.base = ExpectedBase(cameras[ret.camera])

C15_Witness ==
    /\ PathReturned
    /\ cameras[ret.camera].use_custom_output_path
    /\ cameras[ret.camera].output_path = <<>>
    /\ cameras[ret.camera].use_custom_render_settings
    /\ GroupOf(cameras[ret.camera]) # 0
    /\ groups[1].use_custom_output_path /\ ~groups[1].use_custom_render_settings
    /\ ret.base = abspath(Str_grel)

\* a / b: b after a, separated by one "/" unless a is empty or ends with one
Slash(a, b) == IF a = <<>> \/ a[Len(a)] = "/" THEN a \o b ELSE a \o <<"/">> \o b

\* base / group-segment / camera-segment / mode-segment [/ pass-segment]
ExpectedPath(base, c, camera, render_animation, pass_name) ==
    LET gseg == IF c.group # <<>> THEN Sanitize(c.group) ELSE Str_ungrouped
        mseg == IF render_animation THEN Str_animation ELSE Str_stills
        p == Slash(Slash(Slash(base, gseg), Sanitize(camera)), mseg)
    IN IF pass_name # <<>> THEN Slash(p, pass_name) ELSE p

\* C16 as stated: for every camera name, group name, mode and optional pass
\* name the result is base / group / camera / mode [/ pass], the pass name
\* appended verbatim as the last segment.
C16_PathIsSegmentsJoined ==
    PathReturned =>
        ret.value = ExpectedPath(ret.base, cameras[ret.camera], ret.camera,
                                 ret.render_animation, ret.pass_name)

\* root/Ext/Shot_A/stills and root/Ext/Shot_A/animation/depth
Str_example_stills ==
    <<"r", "o", "o", "t", "/", "E", "x", "t", "/", "S", "h", "o", "t", "_", "A",
      "/", "s", "t", "i", "l", "l", "s">>

Str_example_depth ==
    <<"r", "o", "o", "t", "/", "E", "x", "t", "/", "S", "h", "o", "t", "_", "A",
      "/", "a", "n", "i", "m", "a", "t", "i", "o", "n", "/", "d", "e", "p", "t", "h">>

\* camera "Shot A" in group "Ext" with base root/
ExampleCamera ==
    /\ ret.camera = Str_ShotA
    /\ cameras[ret.camera].group = Str_Ext
    /\ ret.base = Str_root

\* C16 amended: the same, for every pass name that does not begin with "/";
\* a pass name that begins with "/" is returned alone, as the whole path.
C16_PathIsSegmentsJoinedUnlessAbsolute ==
    PathReturned =>
        /\ (ret.pass_name = <<>> \/ Head(ret.pass_name) # "/") =>
               ret.value = ExpectedPath(ret.base, cameras[ret.camera], ret.camera,
                                        ret.render_animation, ret.pass_name)
        /\ (ret.pass_name # <<>> /\ Head(ret.pass_name) = "/") => ret.value = ret.pass_name
        /\ ExampleCamera /\ ~ret.render_animation /\ ret.pass_name = NoPass =>
               ret.value = Str_example_stills
        /\ ExampleCamera /\ ret.render_animation /\ ret.pass_name = Str_depth =>
               ret.value = Str_example_depth

C16_Witness ==
    /\ PathReturned /\ ExampleCamera
    /\ ret.render_animation /\ ret.pass_name = Str_depth
    /\ ret.value = Str_example_depth

\* C17 as stated: the sanitisation removes the characters outside alphanumeric,
\* space, "_" and "-" and turns every space of the name into "_".
C17_EverySpaceBecomesUnderscore ==
    PathReturned => ret.camera_segment = ReplaceSpaces(KeepChars(ret.camera))

\* C17 amended: the sanitisation removes the characters outside alphanumeric,
\* space, "_" and "-", drops the spaces at the two ends of what is left and
\* turns every other space into "_"; it is idempotent, and a second call of
\* get_camera_output_path with the same arguments returns the same path.
C17_SanitizeStripsThenReplaces ==
    PathReturned =>
        LET kept == KeepChars(ret.camera)
            seg == ret.camera_segment
        IN /\ \A i \in 1..Len(seg) : seg[i] \in AlnumChars \cup {"_", "-"}
           /\ (kept = <<>> \/ (Head(kept) # " " /\ kept[Len(kept)] # " ")) =>
                  seg = ReplaceSpaces(kept)
           /\ Sanitize(<<" ">> \o ret.camera \o <<" ">>) = seg
           /\ Sanitize(seg) = seg
           /\ get_camera_output_path(ret.camera, ret.render_animation, ret.pass_name)
                = ret.value

C17_Witness ==
    /\ PathReturned
    /\ ret.camera = <<" ", "#", "a">>
    /\ ret.camera_segment = <<"a">>

(* -------------------- get_camera_statistics called alone --------------- *)

\* the name of the i-th camera object: "c", "cc", ...
CameraName(i) == [k \in 1..i |-> "c"]

\* a declared group that is named like the bucket of the cameras without group
GroupUngrouped == [GroupExt EXCEPT !.name = Str_UngroupedKey]

\* up to MaxCameras cameras, each with or without an engine override, with or
\* without a frame range of its own, and with no group, a declared group, an
\* undeclared group or the name "Ungrouped" as its group reference
InitStats ==
    /\ \E me \in {"CYCLES", "BLENDER_WORKBENCH"}, mend \in {10, 250},
          done \in BOOLEAN :
          master = [DefaultMaster EXCEPT
                       !.master_render_engine = me,
                       !.master_end_frame = mend,
                       !.total_renders = IF done THEN 2 ELSE 0,
                       !.total_render_time = IF done THEN 3 ELSE 0,
                       !.last_render_time = IF done THEN 1 ELSE 0]
    /\ \E grs \in BOOLEAN, declared \in BOOLEAN :
          LET g == [GroupExt EXCEPT !.use_custom_render_settings = grs]
          IN groups = IF declared THEN <<g, GroupUngrouped>> ELSE <<g>>
    /\ \E n \in 0..MaxCameras :
          cameras \in [{CameraName(i) : i \in 1..n} ->
              {[CameraShot EXCEPT !.group = g,
                                  !.use_custom_render_settings = crs,
                                  !.render_engine = ce,
                                  !.use_custom_frames = r # <<>>,
                                  !.start_frame = IF r # <<>> THEN r[1] ELSE @,
                                  !.end_frame = IF r # <<>> THEN r[2] ELSE @] :
                 g \in {Str_empty, Str_Ext, Str_Gone, Str_UngroupedKey},
                 crs \in BOOLEAN, ce \in {"BLENDER_WORKBENCH"},
                 r \in {<<>>, <<1, 100>>, <<10, 20>>}}]
    /\ env = SceneEnv
    /\ jobs = [j \in {1} |-> IdleJob]
    /\ ret = NoReturn
    /\ batch = NoBatch

RECURSIVE SeqOfSet(_)
SeqOfSet(S) ==
    IF S = {} THEN <<>>
    ELSE LET x == CHOOSE x \in S : TRUE IN <<x>> \o SeqOfSet(S \ {x})

\* the list of the camera objects of the scene
get_all_cameras == SeqOfSet(DOMAIN cameras)

\* the engine "this camera would use", line 1227
stats_engine(c) ==
    IF c.use_custom_render_settings THEN c.render_engine
    ELSE master.master_render_engine

\* the mutant that forgets the + 1 of a frame range
camera_frames_open(c) ==
    IF c.use_custom_frames THEN c.end_frame - c.start_frame
    ELSE master.master_end_frame - master.master_start_frame

\* the frames that would be rendered for a camera, lines 1262-1265
camera_frames(c) ==
    IF c.use_custom_frames THEN c.end_frame - c.start_frame + 1
    ELSE master.master_end_frame - master.master_start_frame + 1

\* the mutant that counts only under the names it already has
count_group_known(by_group, c) ==
    IF c.group # <<>>
    THEN IF c.group \in DOMAIN by_group
         THEN [by_group EXCEPT ![c.group] = @ + 1]
         ELSE by_group
    ELSE [by_group EXCEPT ![Str_UngroupedKey] = @ + 1]

\* the update of cameras_by_group for one camera, lines 1251-1259
count_group(by_group, c) ==
    IF c.group # <<>>
    THEN IF c.group \in DOMAIN by_group
         THEN [by_group EXCEPT ![c.group] = @ + 1]
         ELSE by_group @@ (c.group :> 1)
    ELSE [by_group EXCEPT ![Str_UngroupedKey] = @ + 1]

\* one turn of the loop over the cameras
count_camera(stats, c) ==
    [stats EXCEPT !.render_engines[stats_engine(c)] = @ + 1,
                  !.cameras_by_group = count_group(@, c),
                  !.total_frames = @ + camera_frames(c)]

RECURSIVE count_cameras(_, _)
count_cameras(stats, cams) ==
    IF cams = <<>> THEN stats
    ELSE count_cameras(count_camera(stats, cameras[Head(cams)]), Tail(cams))

\* the dictionary returned by get_camera_statistics; the average is kept as the
\* fraction total_render_time / total_renders.  The tallies of shot type, shot
\* size and equipment are descriptive fields the render settings never read.
get_camera_statistics ==
    LET all_cameras == get_all_cameras
        stats0 ==
            [total_cameras |-> Len(all_cameras),
             total_groups |-> Len(groups),
             cameras_by_group |->
                 [k \in {groups[i].name : i \in 1..Len(groups)}
                          \cup {Str_UngroupedKey} |-> 0],
             render_engines |-> [e \in Engines |-> 0],
             total_renders |-> master.total_renders,
             total_render_time |-> master.total_render_time,
             average_render_time |-> [num |-> 0, den |-> 1],
             last_render_time |-> master.last_render_time,
             total_frames |-> 0]
        stats1 == count_cameras(stats0, all_cameras)
    IN IF stats1.total_renders > 0
       THEN [stats1 EXCEPT !.average_render_time =
                [num |-> stats1.total_render_time, den |-> stats1.total_renders]]
       ELSE stats1

\* the mutant that counts its own call as a render
StatsCall_counting ==
    /\ ret.kind = "none"
    /\ ret' = [kind |-> "statistics", value |-> get_camera_statistics]
    /\ master' = [master EXCEPT !.total_renders = @ + 1]
    /\ UNCHANGED <<groups, cameras, env, jobs, batch>>

\* one call of get_camera_statistics
StatsCall ==
    /\ ret.kind = "none"
    /\ ret' = [kind |-> "statistics", value |-> get_camera_statistics]
    /\ UNCHANGED <<master, groups, cameras, env, jobs, batch>>

NextStats == StatsCall

SpecStats == InitStats /\ [][NextStats]_vars

StatsReturned == ret.kind = "statistics"

\* the environment setup_render_settings leaves for a render of the camera
Resolved(camera) == setup_render_settings(env, camera, FALSE, TRUE).env

\* C18: the per-engine counts of get_camera_statistics count each camera under
\* the engine setup_render_settings applies for it (camera > group > master).
\* Violated: the statistics read only the camera and the master, so a camera
\* without an engine override in a group that overrides the engine is counted
\* under the master's engine and rendered with the group's.
C18_StatisticsEngineIsAppliedEngine ==
    StatsReturned =>
        \A e \in Engines :
            ret.value.render_engines[e] =
                Cardinality({n \in DOMAIN cameras : Resolved(n).engine = e})

RECURSIVE SumFrames(_)
SumFrames(S) ==
    IF S = {} THEN 0
    ELSE LET n == CHOOSE n \in S : TRUE
         IN (Resolved(n).frame_end - Resolved(n).frame_start + 1)
              + SumFrames(S \ {n})

\* the cameras with a frame range of their own
CustomFrames == {n \in DOMAIN cameras : cameras[n].use_custom_frames}

\* C19: total_frames is the sum over all cameras of end - start + 1 of the
\* frame range resolved for the camera, its own when use_custom_frames is set
\* and the master's otherwise; with N cameras, master range [1,10] and one
\* camera overridden to [1,100] the total is (N-1)*10 + 100.
C19_TotalFramesIsSumOfRanges ==
    StatsReturned =>
        /\ ret.value.total_frames = SumFrames(DOMAIN cameras)
        /\ \A n \in DOMAIN cameras :
              Resolved(n).frame_start =
                  (IF n \in CustomFrames THEN cameras[n].start_frame
                   ELSE master.master_start_frame)
              /\ Resolved(n).frame_end =
                  (IF n \in CustomFrames THEN cameras[n].end_frame
                   ELSE master.master_end_frame)
        /\ (/\ master.master_start_frame = 1 /\ master.master_end_frame = 10
            /\ Cardinality(CustomFrames) = 1
            /\ \A n \in CustomFrames :
                  cameras[n].start_frame = 1 /\ cameras[n].end_frame = 100)
           => ret.value.total_frames = (Cardinality(DOMAIN cameras) - 1) * 10 + 100

C19_Witness ==
    /\ StatsReturned
    /\ Cardinality(DOMAIN cameras) = MaxCameras
    /\ master.master_start_frame = 1 /\ master.master_end_frame = 10
    /\ Cardinality(CustomFrames) = 1
    /\ \A n \in CustomFrames : cameras[n].start_frame = 1 /\ cameras[n].end_frame = 100
    /\ ret.value.total_frames = (MaxCameras - 1) * 10 + 100

DeclaredNames == {groups[i].name : i \in 1..Len(groups)}

RECURSIVE SumCounts(_, _)
SumCounts(f, S) ==
    IF S = {} THEN 0
    ELSE LET k == CHOOSE k \in S : TRUE IN f[k] + SumCounts(f, S \ {k})

\* C20 as stated: the per-group counts have exactly one entry per declared
\* group and the bucket "Ungrouped" and no other entry, a camera with a group
\* reference is counted under it and a camera without one under "Ungrouped",
\* and the counts sum to the number of cameras.
C20_OnlyDeclaredGroupsAndUngrouped ==
    StatsReturned =>
        LET by_group == ret.value.cameras_by_group
        IN /\ DOMAIN by_group = DeclaredNames \cup {Str_UngroupedKey}
           /\ Cardinality(DOMAIN by_group) = Len(groups) + 1
           /\ SumCounts(by_group, DOMAIN by_group) = ret.value.total_cameras

\* the group references of the cameras
ReferencedNames == {cameras[n].group : n \in DOMAIN cameras} \ {<<>>}

\* C20 amended: the entries are the names of the declared groups, the name
\* "Ungrouped" and every group reference of a camera, one entry per name; the
\* entry "Ungrouped" counts the cameras without a group reference and those
\* whose reference is "Ungrouped", every other entry the cameras whose
\* reference is its name (zero for a declared group without cameras); the
\* counts sum to the number of cameras.
C20_OneEntryPerNameInUse ==
    StatsReturned =>
        LET by_group == ret.value.cameras_by_group
        IN /\ DOMAIN by_group =
                 DeclaredNames \cup {Str_UngroupedKey} \cup ReferencedNames
           /\ \A k \in DOMAIN by_group :
                 by_group[k] =
                     Cardinality({n \in DOMAIN cameras :
                         \/ cameras[n].group = k
                         \/ cameras[n].group = <<>> /\ k = Str_UngroupedKey})
           /\ SumCounts(by_group, DOMAIN by_group) = ret.value.total_cameras
           /\ ret.value.total_cameras = Cardinality(DOMAIN cameras)

C20_Witness ==
    /\ StatsReturned
    /\ ret.value.total_cameras = MaxCameras
    /\ Str_Gone \in DOMAIN ret.value.cameras_by_group
    /\ ret.value.cameras_by_group[Str_Gone] = 1
    /\ ret.value.cameras_by_group[Str_Ext] = 0
    /\ ret.value.cameras_by_group[Str_UngroupedKey] = 1

(* --------------------------- preview renders --------------------------- *)

\* a job called with is_viewport on a camera object
Preview(j) == jobs[j].pc # "idle" /\ OnCamera(j) /\ jobs[j].is_viewport

\* the file side of a render never happened for the job
NoFileOutput(j) ==
    /\ jobs[j].makedirs = <<>>
    /\ AttemptEvents(jobs[j].trace) = <<>>
    /\ env.filepath = jobs[j].pre_env.filepath
    /\ env.file_format = jobs[j].pre_env.file_format

\* the environment holds what setup_render_settings resolves for the job
HoldsResolved(j) ==
    LET r == setup_render_settings(jobs[j].pre_env, jobs[j].camera,
                                   jobs[j].is_viewport, TRUE).env
    IN /\ env.camera = jobs[j].camera
       /\ env.engine = r.engine
       /\ env.resolution_x = r.resolution_x
       /\ env.resolution_y = r.resolution_y
       /\ env.resolution_percentage = r.resolution_percentage
       /\ env.frame_start = r.frame_start
       /\ env.frame_end = r.frame_end

\* C21: a preview render never creates a directory, never writes the output
\* filepath or the file format and never invokes the still or animation file
\* render, yet it takes the snapshot, applies the resolved settings and
\* restores the snapshot before it returns.
\* Violated: when setup_render_settings raises, nothing is restored (C1, C3).
C21_PreviewLifecycleWithoutFiles ==
    \A j \in DOMAIN jobs :
        Preview(j) =>
            /\ NoFileOutput(j)
            /\ Applied(j) => HoldsResolved(j) /\ jobs[j].bound
            /\ Returned(j) =>
                  /\ Len(RestoreEvents(jobs[j].trace)) = 1
                  /\ Snapshot(env) = Snapshot(jobs[j].pre_env)

\* the call of restore_render_settings in the finally clause raised: the name
\* original_settings was never bound, and the NameError is caught and printed
RestoreRaised(j) == Returned(j) /\ OnCamera(j) /\ ~jobs[j].bound

\* C22: when restoring the snapshot raises, what the caller of
\* render_from_camera receives differs from what it receives when the
\* restoration worked with the same pass results.
\* Violated: the finally clause swallows the error; the caller receives the
\* False of a job without a successful pass.
C22_RestoreErrorSurfaced ==
    \A j \in DOMAIN jobs :
        RestoreRaised(j) => jobs[j].result # return_value(jobs[j].success)

(* ------------------ two overlapping render_from_camera calls ----------- *)

\* two callers (threads) of render_from_camera on camera "Shot A", which has
\* no override; nothing in render_from_camera waits for another call
InitOverlap ==
    /\ master = DefaultMaster
    /\ groups = <<GroupExt>>
    /\ cameras = [n \in {Str_ShotA} |-> CameraShot]
    /\ env = SceneEnv
    /\ jobs = [j \in {1, 2} |-> IdleJob]
    /\ ret = NoReturn
    /\ batch = NoBatch

\* entry of render_from_camera, whatever the other caller is doing
CallOverlapping(j, camera, render_animation, is_viewport) ==
    /\ jobs[j].pc = "idle"
    /\ IsCamera(camera)
    /\ jobs' = [jobs EXCEPT ![j] =
                  [IdleJob EXCEPT !.pc = "setup", !.camera = camera,
                                  !.render_animation = render_animation,
                                  !.is_viewport = is_viewport,
                                  !.pre_env = env, !.pre_master = master]]
    /\ UNCHANGED <<master, groups, cameras, env, ret, batch>>

NextOverlap ==
    \/ \E j \in DOMAIN jobs, camera \in DOMAIN cameras,
          render_animation \in BOOLEAN, is_viewport \in BOOLEAN :
          CallOverlapping(j, camera, render_animation, is_viewport)
    \/ \E j \in DOMAIN jobs : Setup(j, TRUE)
    \/ \E j \in DOMAIN jobs : ViewportAnimation(j)
    \/ \E j \in DOMAIN jobs, ok \in BOOLEAN : ViewportRender(j, ok)
    \/ \E j \in DOMAIN jobs, mkdir \in {"ok", "fail"}, ok \in BOOLEAN :
          RenderPass(j, mkdir, ok)
    \/ \E j \in DOMAIN jobs : UpdateStats(j, 0)
    \/ \E j \in DOMAIN jobs : Finally(j)

SpecOverlap == InitOverlap /\ [][NextOverlap]_vars

\* the job holds a snapshot that it has not restored yet
HoldsSnapshot(j) == jobs[j].pc \in {"viewport", "passes", "stats", "finally"}

\* C23: render_from_camera enforces a single job in flight: of two overlapping
\* calls the second takes no snapshot and changes nothing before the first has
\* restored, and after both returned the environment is what it was before
\* the first call.
\* Violated: there is no lock; the second call snapshots what the first
\* applied and restores it after the first has restored.
C23_SingleJobInFlight ==
    /\ \A j, k \in DOMAIN jobs : HoldsSnapshot(j) /\ HoldsSnapshot(k) => j = k
    /\ (\A j \in DOMAIN jobs : Returned(j)) => Snapshot(env) = Snapshot(SceneEnv)

(* ----------- the four functions of the core on one configuration ------- *)

\* camera "Shot A" in group "Ext" or in none, with or without render passes
InitCore ==
    /\ master = DefaultMaster
    /\ groups = <<GroupExt>>
    /\ \E g \in {Str_empty, Str_Ext}, cvl \in BOOLEAN, urp \in BOOLEAN :
          cameras = [n \in {Str_ShotA} |->
                       [CameraShot EXCEPT !.group = g,
                                          !.use_custom_view_layer = cvl,
                                          !.use_render_passes = urp,
                                          !.render_passes = MakePasses(<<TRUE, FALSE>>)]]
    /\ env = SceneEnv
    /\ jobs = [j \in {1} |-> IdleJob]
    /\ ret = NoReturn
    /\ batch = NoBatch

NextCore ==
    \/ Next
    \/ NextPath
    \/ NextStats

SpecCore == InitCore /\ [][NextCore]_vars

\* the MasterSettings defaults: everything but the three counters
MasterDefaults(m) ==
    [m EXCEPT !.total_renders = 0, !.last_render_time = 0, !.total_render_time = 0]

\* C24: no step of render_from_camera, setup_render_settings,
\* get_camera_output_path or get_camera_statistics writes a camera record, a
\* group record or a MasterSettings default; a render changes only the three
\* counters of MasterSettings, and get_camera_statistics and
\* get_camera_output_path change nothing.
C24_ConfigurationOnlyRead ==
    [][/\ cameras' = cameras
       /\ groups' = groups
       /\ MasterDefaults(master') = MasterDefaults(master)
       /\ ret' # ret => master' = master /\ env' = env /\ jobs' = jobs]_vars

C24_Witness ==
    /\ \E j \in DOMAIN jobs :
          /\ Returned(j)
          /\ master.total_renders = jobs[j].pre_master.total_renders + 1
          /\ master.last_render_time = MaxDur
          /\ MasterDefaults(master) = MasterDefaults(jobs[j].pre_master)
    /\ StatsReturned
    /\ ret.value.total_renders = master.total_renders

\* the camera record without its group reference
Ungrouped(c) == [c EXCEPT !.group = <<>>]

\* C25: for a camera whose non-empty group reference names no existing group
\* get_camera_output_path returns the path of the same camera without group:
\* the base without any group override, then the segment "ungrouped".
\* Violated: the group segment is the sanitised name of the missing group.
C25_MissingGroupPathIsUngrouped ==
    PathReturned /\ Dangling(cameras[ret.camera]) =>
        /\ ret.base = ExpectedBase(Ungrouped(cameras[ret.camera]))
        /\ ret.value = ExpectedPath(ret.base, Ungrouped(cameras[ret.camera]),
                                    ret.camera, ret.render_animation, ret.pass_name)

(* ------------------------ the output of one pass ----------------------- *)

\* camera "Shot A" in group "Ext" or in none, with every pass list of at most
\* MaxPasses passes, under the master defaults
InitPasses ==
    /\ master = DefaultMaster
    /\ groups = <<GroupExt>>
    /\ \E g \in {Str_empty, Str_Ext}, cvl \in BOOLEAN,
          urp \in BOOLEAN, flags \in PassLists :
          cameras = [n \in {Str_ShotA} |->
                       [CameraShot EXCEPT !.group = g,
                                          !.use_custom_view_layer = cvl,
                                          !.use_render_passes = urp,
                                          !.render_passes = MakePasses(flags)]]
    /\ env = SceneEnv
    /\ jobs = [j \in {1} |-> IdleJob]
    /\ ret = NoReturn
    /\ batch = NoBatch

SpecPasses == InitPasses /\ [][Next]_vars

\* /prj/renders/: "//renders/" below the directory of the blend file
Str_default_dir ==
    <<"/", "p", "r", "j", "/", "r", "e", "n", "d", "e", "r", "s", "/">>

\* base filename, camera name and the optional pass suffix
ComposedFilename(camera, pass_name) ==
    IF pass_name = <<>>
    THEN cameras[camera].filename \o <<"_">> \o camera
    ELSE cameras[camera].filename \o <<"_">> \o camera \o <<"_">> \o pass_name

\* the step is an iteration of the pass loop of job j in which os.makedirs of
\* the resolved directory raised
FellBack(j) == Len(jobs'[j].makedirs) = Len(jobs[j].makedirs) + 2

\* the step invokes the engine for job j
Invokes(j) == Len(EngineEvents(jobs'[j].trace)) = Len(EngineEvents(jobs[j].trace)) + 1

\* the pass of the iteration that the step makes
CurrentPass(j) == jobs[j].passes_to_render[jobs[j].i]

\* the step renders the current pass of job j into the default directory
RendersInDefault(j) ==
    /\ Invokes(j)
    /\ jobs'[j].trace[Len(jobs'[j].trace)].pass = CurrentPass(j)
    /\ env'.filepath = Str_default_dir \o ComposedFilename(jobs[j].camera, CurrentPass(j))

\* the step leaves job j in the pass loop, at the next pass, or past its end
GoesOn(j) ==
    /\ jobs'[j].i = jobs[j].i + 1
    /\ jobs'[j].pc = (IF jobs[j].i = Len(jobs[j].passes_to_render)
                      THEN "stats" ELSE "passes")

\* C26 as stated: when creating the resolved output directory of a pass
\* fails, the pass is rendered with the default location as its output
\* directory and the job goes on with the remaining passes.
C26_FallbackAlwaysRenders ==
    [][\A j \in DOMAIN jobs : FellBack(j) => RendersInDefault(j) /\ GoesOn(j)]_vars

\* C26 amended: when creating the resolved output directory of a pass fails,
\* the pass is rendered with the default location as its output directory if
\* that one can be created, and is skipped without an engine invocation and
\* without a write to the environment if it cannot; either way the job goes
\* on with the remaining passes.
C26_FallbackRendersOrSkips ==
    [][\A j \in DOMAIN jobs :
          FellBack(j) =>
              LET last == jobs'[j].makedirs[Len(jobs'[j].makedirs)]
              IN /\ last.dir = Str_default_dir
                 /\ last.ok => RendersInDefault(j)
                 /\ ~last.ok => ~Invokes(j) /\ env' = env
                 /\ GoesOn(j)]_vars

C26_Witness ==
    \E j \in DOMAIN jobs :
        /\ jobs[j].pc = "passes" /\ jobs[j].i = 2
        /\ Len(jobs[j].makedirs) = 2
        /\ ~jobs[j].makedirs[1].ok /\ jobs[j].makedirs[2].ok
        /\ Len(EngineEvents(jobs[j].trace)) = 1
        /\ env.filepath =
              Str_default_dir \o ComposedFilename(jobs[j].camera, jobs[j].passes_to_render[1])

\* C27: at every engine invocation of render_from_camera the environment
\* holds the resolved configuration of the camera being rendered: active
\* camera, engine, resolution and frame range, and for a non-preview render
\* the camera's file format and the filepath composed for the current pass:
\* the directory made for this pass, then base filename, camera name and the
\* optional pass suffix.
C27_EnvironmentAtEveryInvocation ==
    [][\A j \in DOMAIN jobs :
          Invokes(j) =>
              /\ HoldsResolved(j)'
              /\ ~jobs[j].is_viewport =>
                    LET made == jobs'[j].makedirs[Len(jobs'[j].makedirs)]
                    IN /\ jobs'[j].trace[Len(jobs'[j].trace)].pass = CurrentPass(j)
                       /\ made.ok /\ made.pass = CurrentPass(j)
                       /\ made.dir \in
                             {get_camera_output_path(jobs[j].camera,
                                                     jobs[j].render_animation,
                                                     CurrentPass(j)),
                              Str_default_dir}
                       /\ env'.file_format = cameras[jobs[j].camera].file_format
                       /\ env'.filepath =
                             Slash(made.dir,
                                   ComposedFilename(jobs[j].camera, CurrentPass(j)))]_vars

C27_Witness ==
    \E j \in DOMAIN jobs :
        /\ jobs[j].pc = "stats" /\ jobs[j].i = 3
        /\ Len(EngineEvents(jobs[j].trace)) = 2
        /\ jobs[j].passes_to_render[1] # jobs[j].passes_to_render[2]
        /\ HoldsResolved(j)
        /\ env.file_format = cameras[jobs[j].camera].file_format
        /\ env.filepath =
              Slash(get_camera_output_path(jobs[j].camera, jobs[j].render_animation,
                                           jobs[j].passes_to_render[2]),
                    ComposedFilename(jobs[j].camera, jobs[j].passes_to_render[2]))

(* ------------- render_all_cameras and render_group_cameras ------------- *)

\* cameras "c" and "cc"; "c" is in group "Ext" and may have a view layer of
\* its own, "cc" is in group "Ext" or in none; one job per camera of a batch
InitBatch ==
    /\ master = DefaultMaster
    /\ groups = <<GroupExt>>
    /\ \E cvl \in BOOLEAN, g \in {Str_empty, Str_Ext} :
          cameras = [n \in {CameraName(1), CameraName(2)} |->
                       IF n = CameraName(1)
                       THEN [CameraShot EXCEPT !.group = Str_Ext,
                                               !.use_custom_view_layer = cvl]
                       ELSE [CameraShot EXCEPT !.group = g]]
    /\ env = SceneEnv
    /\ jobs = [j \in {1, 2} |-> IdleJob]
    /\ ret = NoReturn
    /\ batch = NoBatch

\* ShotMasterManager.get_cameras_in_group
get_cameras_in_group(group_name) ==
    IF group_name = <<>> THEN <<>>
    ELSE SelectSeq(get_all_cameras, LAMBDA n : cameras[n].group = group_name)

\* the start of execute of a batch operator on the list cams: CANCELLED when
\* the list is empty, else success_count = 0 and the loop
BatchStart(cams, render_animation, is_viewport) ==
    /\ batch.pc = "none"
    /\ batch' = [pc |-> IF cams = <<>> THEN "cancelled" ELSE "loop",
                 cameras |-> cams, k |-> 1, success_count |-> 0,
                 render_animation |-> render_animation,
                 is_viewport |-> is_viewport]
    /\ UNCHANGED <<master, groups, cameras, env, jobs, ret>>

\* SHOTMASTER_OT_render_all_cameras.execute
RenderAllCameras(render_animation, is_viewport) ==
    BatchStart(get_all_cameras, render_animation, is_viewport)

\* SHOTMASTER_OT_render_group_cameras.execute
RenderGroupCameras(group_name, render_animation, is_viewport) ==
    BatchStart(get_cameras_in_group(group_name), render_animation, is_viewport)

\* the loop calls render_from_camera on its next camera
BatchRender ==
    /\ batch.pc = "loop"
    /\ jobs[batch.k].pc = "idle"
    /\ Call(batch.k, batch.cameras[batch.k], batch.render_animation, batch.is_viewport)

\* render_from_camera returned: `success_count += 1` when it returned True,
\* then the next camera, or the report and FINISHED after the last
BatchCollect ==
    /\ batch.pc = "loop"
    /\ jobs[batch.k].pc = "returned"
    /\ batch' = [batch EXCEPT
                    !.success_count = IF jobs[batch.k].result THEN @ + 1 ELSE @,
                    !.k = @ + 1,
                    !.pc = IF batch.k = Len(batch.cameras) THEN "done" ELSE "loop"]
    /\ UNCHANGED <<master, groups, cameras, env, jobs, ret>>

NextBatch ==
    \/ \E render_animation \in BOOLEAN, is_viewport \in BOOLEAN :
          RenderAllCameras(render_animation, is_viewport)
    \/ \E group_name \in {Str_empty, Str_Ext, Str_Gone},
          render_animation \in BOOLEAN, is_viewport \in BOOLEAN :
          RenderGroupCameras(group_name, render_animation, is_viewport)
    \/ BatchRender
    \/ BatchCollect
    \/ \E j \in DOMAIN jobs, has_window \in BOOLEAN : Setup(j, has_window)
    \/ \E j \in DOMAIN jobs : ViewportAnimation(j)
    \/ \E j \in DOMAIN jobs, ok \in BOOLEAN : ViewportRender(j, ok)
    \/ \E j \in DOMAIN jobs, mkdir \in {"ok", "fallback", "fail"}, ok \in BOOLEAN :
          RenderPass(j, mkdir, ok)
    \/ \E j \in DOMAIN jobs, render_time \in Durations : UpdateStats(j, render_time)
    \/ \E j \in DOMAIN jobs : Finally(j)

SpecBatch == InitBatch /\ [][NextBatch]_vars

BatchRunning == batch.pc \in {"loop", "done"}

\* one job per camera of the batch, in the order of the list, and no other
OneJobPerCamera ==
    /\ \A k \in DOMAIN jobs :
          jobs[k].pc # "idle" => k <= Len(batch.cameras) /\ jobs[k].camera = batch.cameras[k]
    /\ \A k, m \in 1..Len(batch.cameras) :
          batch.cameras[k] = batch.cameras[m] => k = m
    /\ batch.pc = "done" => \A k \in 1..Len(batch.cameras) : Returned(k)

\* a job is started only after every job before it has returned
OneAfterAnother ==
    \A k, m \in DOMAIN jobs : k < m /\ jobs[m].pc # "idle" => Returned(k)

SuccessCountIsTrueReturns ==
    batch.pc = "done" =>
        /\ batch.success_count =
              Cardinality({k \in 1..Len(batch.cameras) : jobs[k].result})
        /\ batch.success_count \in 0..Len(batch.cameras)

\* C28: a batch render starts exactly one job for every camera of the batch,
\* one after another, each job's restoration completed before the next job's
\* snapshot; a failed job does not stop the jobs of the remaining cameras, and
\* the reported success count is the number of jobs that returned success.
\* Violated: a job whose setup_render_settings raised restores nothing (C3),
\* and the next job snapshots the environment it left.
C28_BatchJobsInSequence ==
    BatchRunning =>
        /\ OneJobPerCamera
        /\ OneAfterAnother
        /\ \A k, m \in DOMAIN jobs :
              k < m /\ jobs[m].pc # "idle" => Len(RestoreEvents(jobs[k].trace)) = 1
        /\ SuccessCountIsTrueReturns

(* -------------------- the render-pass list operators ------------------- *)

Digits == <<"0", "1", "2", "3", "4", "5", "6", "7", "8", "9">>

\* str(n) of a natural number
RECURSIVE Decimal(_)
Decimal(n) ==
    IF n < 10 THEN <<Digits[n + 1]>>
    ELSE Decimal(n \div 10) \o <<Digits[(n % 10) + 1]>>

\* f"pass_{n}"
NewPassName(n) == <<"p", "a", "s", "s", "_">> \o Decimal(n)

\* collection.remove(index), index counted from 0
RemoveAt(s, index) ==
    [k \in 1..(Len(s) - 1) |-> IF k <= index THEN s[k] ELSE s[k + 1]]

\* collection.move(src, dst), both counted from 0: the item leaves src and
\* is put back at dst
MoveItem(s, src, dst) ==
    LET rest == RemoveAt(s, src)
    IN [k \in 1..Len(s) |->
          IF k <= dst THEN rest[k]
          ELSE IF k = dst + 1 THEN s[src + 1]
          ELSE rest[k - 1]]

\* what an operator leaves: the camera record and the set it returns
Done(c) == [c |-> c, value |-> "FINISHED"]
Cancelled(c) == [c |-> c, value |-> "CANCELLED"]

\* SHOTMASTER_OT_add_render_pass.execute on a camera object
add_render_pass(c) ==
    LET n == Len(c.render_passes) + 1
    IN Done([c EXCEPT !.render_passes =
                          Append(@, [name |-> NewPassName(n), enabled |-> TRUE]),
                      !.active_pass_index = n - 1])

\* the mutant that leaves the active index where it was
delete_render_pass_keepindex(c) ==
    IF Len(c.render_passes) <= 0 THEN Cancelled(c)
    ELSE Done([c EXCEPT !.render_passes = RemoveAt(@, c.active_pass_index)])

\* SHOTMASTER_OT_delete_render_pass.execute on a camera object
delete_render_pass(c) ==
    IF Len(c.render_passes) <= 0 THEN Cancelled(c)
    ELSE LET index == c.active_pass_index
             left == RemoveAt(c.render_passes, index)
         IN Done([c EXCEPT !.render_passes = left,
                           !.active_pass_index =
                               IF index >= Len(left)
                               THEN (IF Len(left) - 1 > 0 THEN Len(left) - 1 ELSE 0)
                               ELSE @])

\* SHOTMASTER_OT_move_render_pass_up.execute on a camera object
move_render_pass_up(c) ==
    LET index == c.active_pass_index
    IN IF index <= 0 \/ index >= Len(c.render_passes) THEN Cancelled(c)
       ELSE Done([c EXCEPT !.render_passes = MoveItem(@, index, index - 1),
                           !.active_pass_index = @ - 1])

\* SHOTMASTER_OT_move_render_pass_down.execute on a camera object
move_render_pass_down(c) ==
    LET index == c.active_pass_index
    IN IF index < 0 \/ index >= Len(c.render_passes) - 1 THEN Cancelled(c)
       ELSE Done([c EXCEPT !.render_passes = MoveItem(@, index, index + 1),
                           !.active_pass_index = @ + 1])

\* the operator op run on the object camera_name: "Invalid camera" and
\* CANCELLED for anything but a camera; ret keeps the record before the run
PassOperator(op, camera_name, r) ==
    /\ IF IsCamera(camera_name)
       THEN /\ cameras' = [cameras EXCEPT ![camera_name] = r.c]
            /\ ret' = [kind |-> "operator", op |-> op, camera |-> camera_name,
                       value |-> r.value, before |-> cameras[camera_name]]
       ELSE /\ cameras' = cameras
            /\ ret' = [kind |-> "operator", op |-> op, camera |-> camera_name,
                       value |-> "CANCELLED", before |-> CameraShot]
    /\ UNCHANGED <<master, groups, env, jobs, batch>>

AnyCamera(camera_name) ==
    IF IsCamera(camera_name) THEN cameras[camera_name] ELSE CameraShot

AddRenderPass(camera_name) ==
    /\ IsCamera(camera_name) => Len(cameras[camera_name].render_passes) < MaxListLen
    /\ PassOperator("add_render_pass", camera_name,
                    add_render_pass(AnyCamera(camera_name)))

DeleteRenderPass(camera_name) ==
    PassOperator("delete_render_pass", camera_name,
                 delete_render_pass(AnyCamera(camera_name)))

MoveRenderPassUp(camera_name) ==
    PassOperator("move_render_pass_up", camera_name,
                 move_render_pass_up(AnyCamera(camera_name)))

MoveRenderPassDown(camera_name) ==
    PassOperator("move_render_pass_down", camera_name,
                 move_render_pass_down(AnyCamera(camera_name)))

\* camera "Shot A" as create_camera leaves it: the default pass "beauty",
\* active_pass_index 0
InitPassOps ==
    /\ master = DefaultMaster
    /\ groups = <<GroupExt>>
    /\ cameras = [n \in {Str_ShotA} |-> CameraShot]
    /\ env = SceneEnv
    /\ jobs = [j \in {1} |-> IdleJob]
    /\ ret = NoReturn
    /\ batch = NoBatch

NextPassOps ==
    \E camera_name \in DOMAIN cameras \cup {MeshObject} :
        \/ AddRenderPass(camera_name)
        \/ DeleteRenderPass(camera_name)
        \/ MoveRenderPassUp(camera_name)
        \/ MoveRenderPassDown(camera_name)

SpecPassOps == InitPassOps /\ [][NextPassOps]_vars

\* 0 <= index < length, or 0 for the empty list
ValidActiveIndex(c) ==
    IF c.render_passes = <<>> THEN c.active_pass_index = 0
    ELSE c.active_pass_index \in 0..(Len(c.render_passes) - 1)

\* the list s with its items at positions a and b (from 0) exchanged
Exchanged(s, a, b) ==
    [k \in 1..Len(s) |-> IF k = a + 1 THEN s[b + 1] ELSE IF k = b + 1 THEN s[a + 1] ELSE s[k]]

\* the last operator was the move `op` on a camera, by `d` positions
MoveOutcome(op, d) ==
    ret.kind = "operator" /\ ret.op = op /\ IsCamera(ret.camera) =>
        LET b == ret.before
            a == cameras[ret.camera]
            index == b.active_pass_index
            at_end == b.render_passes = <<>>
                        \/ index + d \notin 0..(Len(b.render_passes) - 1)
        IN /\ (ret.value = "CANCELLED") <=> at_end
           /\ at_end => a = b
           /\ ~at_end =>
                 /\ a.render_passes = Exchanged(b.render_passes, index, index + d)
                 /\ a.active_pass_index = index + d
                 /\ a.render_passes[a.active_pass_index + 1] = b.render_passes[index + 1]
                 /\ a = [b EXCEPT !.render_passes = a.render_passes,
                                  !.active_pass_index = a.active_pass_index]

\* C29: from a camera with its default pass and active_pass_index 0, after any
\* sequence of the add, delete, move-up and move-down operators the
\* active_pass_index is a valid index of the pass list, or 0 when the list is
\* empty; a move exchanges the active pass with its neighbour and keeps it
\* the active one, and is cancelled without any change at the list's end.
C29_ActiveIndexValidAndMovesReorder ==
    /\ \A n \in DOMAIN cameras : ValidActiveIndex(cameras[n])
    /\ MoveOutcome("move_render_pass_up", -1)
    /\ MoveOutcome("move_render_pass_down", 1)

C29_Witness ==
    /\ ret.kind = "operator" /\ ret.op = "move_render_pass_up"
    /\ ret.value = "FINISHED"
    /\ Len(cameras[ret.camera].render_passes) = 3
    /\ ret.before.active_pass_index = 2
    /\ cameras[ret.camera].active_pass_index = 1
    /\ cameras[ret.camera].render_passes[2].name = NewPassName(3)

(* ------------------------- the group operators ------------------------- *)

\* a group as shotmaster_camera_groups.add() makes it, then named
NewGroup(group_name) ==
    [name |-> group_name,
     use_custom_output_path |-> FALSE, output_path |-> <<>>,
     use_custom_render_settings |-> FALSE, render_engine |-> "CYCLES",
     cycles_samples |-> 128, eevee_samples |-> 64,
     use_custom_resolution |-> FALSE,
     resolution_x |-> 1920, resolution_y |-> 1080, resolution_percentage |-> 100,
     use_custom_view_layer |-> FALSE, view_layer |-> ""]

\* what a group operator leaves: groups, cameras and the set it returns
Left(gs, cs, value) == [groups |-> gs, cameras |-> cs, value |-> value]

\* SHOTMASTER_OT_add_camera_group.execute
add_camera_group(group_name) ==
    IF group_name = <<>> THEN Left(groups, cameras, "CANCELLED")
    ELSE IF \E i \in 1..Len(groups) : groups[i].name = group_name
    THEN Left(groups, cameras, "CANCELLED")
    ELSE Left(Append(groups, NewGroup(group_name)), cameras, "FINISHED")

\* the mutant that leaves the member cameras as they are
remove_camera_group_keeprefs(group_name) ==
    LET group_index == FindGroup(group_name)
    IN IF group_index = 0 THEN Left(groups, cameras, "CANCELLED")
       ELSE Left(RemoveAt(groups, group_index - 1), cameras, "FINISHED")

\* SHOTMASTER_OT_remove_camera_group.execute; group_index counts from 1 here
remove_camera_group(group_name) ==
    LET group_index == FindGroup(group_name)
        members == {n \in DOMAIN cameras :
                      group_name # <<>> /\ cameras[n].group = group_name}
    IN IF group_index = 0 THEN Left(groups, cameras, "CANCELLED")
       ELSE Left(RemoveAt(groups, group_index - 1),
                 [n \in DOMAIN cameras |->
                    IF n \in members THEN [cameras[n] EXCEPT !.group = <<>>]
                    ELSE cameras[n]],
                 "FINISHED")

\* SHOTMASTER_OT_assign_camera_to_group.execute
assign_camera_to_group(camera_name, group_name) ==
    IF ~IsCamera(camera_name) THEN Left(groups, cameras, "CANCELLED")
    ELSE IF group_name # <<>> /\ ~\E i \in 1..Len(groups) : groups[i].name = group_name
    THEN Left(groups, cameras, "CANCELLED")
    ELSE Left(groups, [cameras EXCEPT ![camera_name].group = group_name], "FINISHED")

\* one run of a group operator; ret keeps its arguments and the groups and
\* cameras before the run
GroupOperator(op, camera_name, group_name, r) ==
    /\ groups' = r.groups
    /\ cameras' = r.cameras
    /\ ret' = [kind |-> "operator", op |-> op, camera |-> camera_name,
               group_name |-> group_name, value |-> r.value,
               before |-> [groups |-> groups, cameras |-> cameras]]
    /\ UNCHANGED <<master, env, jobs, batch>>

AddCameraGroup(group_name) ==
    GroupOperator("add_camera_group", NoObject, group_name,
                  add_camera_group(group_name))

RemoveCameraGroup(group_name) ==
    GroupOperator("remove_camera_group", NoObject, group_name,
                  remove_camera_group(group_name))

AssignCameraToGroup(camera_name, group_name) ==
    GroupOperator("assign_camera_to_group", camera_name, group_name,
                  assign_camera_to_group(camera_name, group_name))

\* no group, cameras "c" and "cc" without group
InitGroupOps ==
    /\ master = DefaultMaster
    /\ groups = <<>>
    /\ cameras = [n \in {CameraName(1), CameraName(2)} |-> CameraShot]
    /\ env = SceneEnv
    /\ jobs = [j \in {1} |-> IdleJob]
    /\ ret = NoReturn
    /\ batch = NoBatch

\* the group names the operators are run with
GroupNames == {Str_empty, Str_Ext, Str_Gone, Str_UngroupedKey}

NextGroupOps ==
    \/ \E group_name \in GroupNames : AddCameraGroup(group_name)
    \/ \E group_name \in GroupNames : RemoveCameraGroup(group_name)
    \/ \E camera_name \in DOMAIN cameras \cup {MeshObject}, group_name \in GroupNames :
          AssignCameraToGroup(camera_name, group_name)

SpecGroupOps == InitGroupOps /\ [][NextGroupOps]_vars

NamesOf(gs) == {gs[i].name : i \in 1..Len(gs)}

GroupOp(op) == ret.kind = "operator" /\ ret.op = op

Rejected ==
    /\ ret.value = "CANCELLED"
    /\ groups = ret.before.groups
    /\ cameras = ret.before.cameras

\* C30: from no groups and ungrouped cameras, after any sequence of the
\* add_camera_group, remove_camera_group and assign_camera_to_group operators
\* the group names are pairwise distinct and every camera's group reference is
\* empty or the name of an existing group; adding an existing or empty name
\* and assigning to a non-existing group are rejected without change, and
\* removing a group resets the reference of each of its cameras to empty.
C30_GroupReferencesStayValid ==
    /\ \A i, k \in 1..Len(groups) : groups[i].name = groups[k].name => i = k
    /\ \A n \in DOMAIN cameras :
          cameras[n].group = <<>> \/ cameras[n].group \in NamesOf(groups)
    /\ GroupOp("add_camera_group") =>
          IF ret.group_name = <<>> \/ ret.group_name \in NamesOf(ret.before.groups)
          THEN Rejected
          ELSE /\ ret.value = "FINISHED"
               /\ Len(groups) = Len(ret.before.groups) + 1
               /\ groups[Len(groups)].name = ret.group_name
               /\ cameras = ret.before.cameras
    /\ GroupOp("assign_camera_to_group") =>
          IF ret.group_name # <<>> /\ ret.group_name \notin NamesOf(ret.before.groups)
          THEN Rejected
          ELSE IsCamera(ret.camera) =>
                  /\ ret.value = "FINISHED"
                  /\ cameras[ret.camera].group = ret.group_name
                  /\ groups = ret.before.groups
    /\ GroupOp("remove_camera_group") /\ ret.value = "FINISHED" =>
          /\ NamesOf(groups) = NamesOf(ret.before.groups) \ {ret.group_name}
          /\ \A n \in DOMAIN cameras :
                cameras[n].group =
                    (IF ret.before.cameras[n].group = ret.group_name THEN <<>>
                     ELSE ret.before.cameras[n].group)

C30_Witness ==
    /\ GroupOp("remove_camera_group") /\ ret.value = "FINISHED"
    /\ ret.group_name = Str_Ext
    /\ ret.before.cameras[CameraName(1)].group = Str_Ext
    /\ ret.before.cameras[CameraName(2)].group = Str_Gone
    /\ cameras[CameraName(1)].group = <<>>
    /\ cameras[CameraName(2)].group = Str_Gone
    /\ NamesOf(groups) = {Str_Gone}

====
